---- MODULE Spec2Model ----
(***************************************************************************)
(* A model of node-auth-kit: the authentication service, the token codec,   *)
(* the access-control middleware and the user controller, over a document   *)
(* store with a unique index on email.                                      *)
(*                                                                          *)
(* A request handler is an async function: between two awaited store        *)
(* operations other requests may run.  Each action below is one store       *)
(* operation taking effect, together with the synchronous code that runs    *)
(* on its result (up to the point where the next store operation is         *)
(* issued, or the response is sent).  The first action of a handler also    *)
(* contains the arrival of the request and its validation.                  *)
(***************************************************************************)
EXTENDS Integers, Sequences, FiniteSets, TLC

\* ---------------------------------------------------------------- bounds
MaxUsers == 2
MaxEvents == 3
MaxInFlight == 2
MaxTicks == 1
\* bounds of the session specification (the authentication service alone)
SessionUsers == 1
SessionEvents == 5
SessionInFlight == 2
SessionTicks == 1
\* bounds of the accounts specification (the protected routes, two accounts)
AccountEvents == 3
AccountInFlight == 2
AccountTicks == 1

\* ------------------------------------------------------- program constants
MsPerSec == 1000
AccessExpirySec == 900
RefreshExpirySec == 604800
ResetExpirySec == 3600
ResetExpiresMs == 60 * 60 * 1000
BcryptCost == 12

\* ----------------------------------------------------------------- inputs
RawEmails == {"a@x.com", "A@X.com", "b@x.com"}
Passwords == {"secret1", "secret2"}
Roles == {"user", "admin"}
RoleInputs == Roles \cup {"absent"}
TimeSteps == {MsPerSec \div 2, MsPerSec, ResetExpiresMs, RefreshExpirySec * MsPerSec}

\* ---------------------------------------------------------------- strings
\* String.prototype.toLowerCase on the inputs above
toLowerCase(e) == IF e = "A@X.com" THEN "a@x.com" ELSE e

\* a validator without .lowercase(): the value is passed on as typed
JoiEmail_asTyped(raw) == raw

\* Joi: string().email().lowercase().trim() converts the value to lower case
JoiEmail(raw) == toLowerCase(raw)

\* Joi: role defaults to 'user'
JoiRole(r) == IF r = "absent" THEN "user" ELSE r

\* the schema's lowercase setter, applied when a document's email is set
SchemaEmail(e) == toLowerCase(e)

\* --------------------------------------------------------- password hasher
NoHash == [cost |-> 0, of |-> ""]

\* bcrypt.genSalt(12) + bcrypt.hash: the digest of a plaintext (the salt is
\* left out: two digests of one plaintext verify the same candidates)
bcryptHash(plain) == [cost |-> BcryptCost, of |-> plain]

\* userSchema.methods.comparePassword
comparePassword(candidate, stored) == stored = bcryptHash(candidate)

\* a pre-save hook that hashes this.password on every save: an unmodified
\* password is the loaded digest, and what is stored is the digest of a digest
preSave_always(password, isModified) ==
  IF isModified THEN bcryptHash(password)
  ELSE [cost |-> BcryptCost, of |-> "$2a$12$"]

\* userSchema.pre('save'): this.password after the hook, from this.password
\* before it (the plaintext just assigned, or the digest that was loaded)
preSave(password, isModified) ==
  IF ~isModified THEN password ELSE bcryptHash(password)

\* ------------------------------------------------------------- token codec
NoToken == [secret |-> "none", userId |-> 0, email |-> "", role |-> "", iat |-> 0, exp |-> 0]
GarbageToken == [secret |-> "garbage", userId |-> 0, email |-> "", role |-> "", iat |-> 0, exp |-> 0]

expiresIn(cat) ==
  CASE cat = "access" -> AccessExpirySec
    [] cat = "refresh" -> RefreshExpirySec
    [] cat = "reset" -> ResetExpirySec

\* a configuration with one secret for the three categories
secretOf_shared(cat) == "your-token-secret-change-in-production"

\* jwtConfig: the secret of each category (the defaults)
secretOf(cat) ==
  CASE cat = "access" -> "your-access-token-secret-change-in-production"
    [] cat = "refresh" -> "your-refresh-token-secret-change-in-production"
    [] cat = "reset" -> "your-password-reset-secret-change-in-production"

\* was tok signed by generate<cat>Token: under cat's secret, with cat's expiry
mintedAs(tok, cat) == tok.secret = secretOf(cat) /\ tok.exp - tok.iat = expiresIn(cat)

\* jwt.sign(payload, secret, {expiresIn}): iat is the time in whole seconds
sign(cat, uid, email, role, t) ==
  [secret |-> secretOf(cat), userId |-> uid, email |-> email, role |-> role,
   iat |-> t \div MsPerSec, exp |-> (t \div MsPerSec) + expiresIn(cat)]

generateAccessToken(uid, email, role, t) == sign("access", uid, email, role, t)
generateRefreshToken(uid, email, role, t) == sign("refresh", uid, email, role, t)
generatePasswordResetToken(uid, email, t) == sign("reset", uid, email, "", t)

\* a verify that still accepts a token in the second of its exp
verify_lateByOne(cat, tok, t) ==
  IF tok.secret # secretOf(cat) THEN "JsonWebTokenError"
  ELSE IF (t \div MsPerSec) > tok.exp THEN "TokenExpiredError"
  ELSE "ok"

\* jwt.verify: "ok", "JsonWebTokenError" (signature) or "TokenExpiredError"
verify(cat, tok, t) ==
  IF tok.secret # secretOf(cat) THEN "JsonWebTokenError"
  ELSE IF (t \div MsPerSec) >= tok.exp THEN "TokenExpiredError"
  ELSE "ok"

verifyAccessToken(tok, t) == verify("access", tok, t)
verifyRefreshToken(tok, t) == verify("refresh", tok, t)
verifyPasswordResetToken(tok, t) == verify("reset", tok, t)

\* ------------------------------------------------------------------ store
NoDate == -1
Ids == 1..(MaxUsers + SessionUsers)

NoUser ==
  [exists |-> FALSE, email |-> "", password |-> NoHash, role |-> "",
   refreshToken |-> NoToken, passwordResetToken |-> NoToken,
   passwordResetExpires |-> NoDate, isActive |-> FALSE, updatedAt |-> NoDate]

VARIABLES
  users,      \* the users collection: id -> document (NoUser: no document);
              \* name and createdAt are left out: no step reads them
  nextId,     \* the next _id the store assigns
  now,        \* Date.now(), in milliseconds
  ticks,      \* number of clock advances so far
  req,        \* slot -> the request suspended at an await (Idle: none)
  events,     \* number of requests received and environment steps so far
  issued,     \* the tokens handed to clients so far
  revoked,    \* history: <<cause, token>>, for the refresh tokens a session-ending
              \* write was meant to end (cause "superseded", "logout", "reset"), the
              \* refresh token a change-password replaced ("changed"), the reset
              \* tokens a later requestPasswordReset replaced ("replaced") and the
              \* reset tokens that changed a password ("used", then "reused")
  last,       \* the step taken last and the response it sent, if any (user: the
              \* paths of the user representations in the response's data)
  limits      \* the bounds of this run

vars == <<users, nextId, now, ticks, req, events, issued, revoked, last, limits>>

Slots == 1..(MaxInFlight + SessionInFlight + AccountInFlight)

Idle ==
  [op |-> "idle", pc |-> "", uid |-> 0, email |-> "", role |-> "",
   inEmail |-> "", pw |-> "", cur |-> "", tok |-> NoToken, mint |-> NoToken,
   expires |-> NoDate, target |-> 0]

NoEvent ==
  [op |-> "none", step |-> "", status |-> 0, msg |-> "", uid |-> 0,
   out |-> NoToken, acc |-> NoToken, mail |-> "", user |-> {}]

Ev(op, step, status, msg) ==
  [NoEvent EXCEPT !.op = op, !.step = step, !.status = status, !.msg = msg]

\* User.findOne({ email })
findOneByEmail(us, email) ==
  LET hit == {i \in DOMAIN us : us[i].exists /\ us[i].email = email}
  IN IF hit = {} THEN 0 ELSE CHOOSE i \in hit : TRUE

\* User.findById(id)
findById(us, id) == IF id \in DOMAIN us /\ us[id].exists THEN id ELSE 0

\* schema option timestamps: the store stamps updatedAt on every write
touch(doc, t) == [doc EXCEPT !.updatedAt = t]

\* the paths of the user schema, and those declared select: false
SchemaPaths ==
  {"_id", "name", "email", "password", "role", "refreshToken", "passwordResetToken",
   "passwordResetExpires", "isActive", "createdAt", "updatedAt"}
SelectFalse == {"password", "refreshToken", "passwordResetToken", "passwordResetExpires"}

\* the paths a query loads into a document: the schema's defaults, with the
\* paths of .select('+p') added and those of .select('-p') removed
queryPaths(plus, minus) == ((SchemaPaths \ SelectFalse) \cup plus) \ minus

\* userSchema.methods.toJSON: the paths of a document's JSON form
toJSON(paths) ==
  paths \ {"password", "refreshToken", "passwordResetToken", "passwordResetExpires"}

\* the response envelope's data: a document is serialised through its toJSON,
\* a plain object as it is
successResponse(paths, isDocument) == IF isDocument THEN toJSON(paths) ELSE paths

\* a result whose user object also copies the hash
resultUser_withPassword == {"id", "name", "email", "role", "password"}

\* the user object registerUser and loginUser return
resultUser == {"id", "name", "email", "role"}

\* a collection without the unique index: every write is allowed
uniqueIndexAllows_noIndex(us, id, email) == TRUE

\* the unique index on email: may document id hold this email?
uniqueIndexAllows(us, id, email) ==
  \A i \in DOMAIN us : (us[i].exists /\ i # id) => us[i].email # email

Init ==
  /\ users = [i \in Ids |-> NoUser]
  /\ nextId = 1
  /\ now = 0
  /\ ticks = 0
  /\ req = [s \in Slots |-> Idle]
  /\ events = 0
  /\ issued = {}
  /\ revoked = {}
  /\ last = NoEvent
  /\ limits = [users |-> MaxUsers, events |-> MaxEvents,
               inflight |-> MaxInFlight, ticks |-> MaxTicks]

InitSession ==
  /\ users = [i \in Ids |-> NoUser]
  /\ nextId = 1
  /\ now = 0
  /\ ticks = 0
  /\ req = [s \in Slots |-> Idle]
  /\ events = 0
  /\ issued = {}
  /\ revoked = {}
  /\ last = NoEvent
  /\ limits = [users |-> SessionUsers, events |-> SessionEvents,
               inflight |-> SessionInFlight, ticks |-> SessionTicks]

\* ---------------------------------------------------------------- helpers
FreeSlots == {s \in Slots : s <= limits.inflight /\ req[s].op = "idle"}
FreeSlot == CHOOSE s \in FreeSlots : \A r \in FreeSlots : s <= r
CanStart == events < limits.events /\ FreeSlots # {}

\* the registrations that have passed their lookup and will create a document
PendingCreates == Cardinality({s \in Slots : req[s].op = "register" /\ req[s].pc = "create"})

\* what a client can put in a request where a token is expected
TokenInputs == issued \cup {NoToken, GarbageToken}

\* the access token signed in the same synchronous block as refresh token rt
accessTwin(rt) == generateAccessToken(rt.userId, rt.email, rt.role, rt.iat * MsPerSec)

\* the refresh tokens handed out so far for user id
refreshTokensOf(id) == {t \in issued : mintedAs(t, "refresh") /\ t.userId = id}

\* emailService: the transport delivers or throws; the controllers catch and log
sendMail(mailOk) == IF mailOk THEN "sent" ELSE "failed"

Respond(s, ev) ==
  /\ req' = [req EXCEPT ![s] = Idle]
  /\ last' = ev

\* ---------------------------------------------------------------- register
\* POST /auth/register: validate, then registerUser up to User.findOne
registerUser_findOne(raw, pw, roleIn) ==
  LET email == JoiEmail(raw)
      found == findOneByEmail(users, email)
  IN /\ CanStart
     /\ events' = events + 1
     /\ \/ /\ found # 0
           /\ last' = Ev("register", "findOne", 400, "User with this email already exists")
           /\ UNCHANGED req
        \/ /\ found = 0
           /\ nextId + PendingCreates <= limits.users
           /\ req' = [req EXCEPT ![FreeSlot] =
                        [Idle EXCEPT !.op = "register", !.pc = "create", !.inEmail = email,
                                     !.pw = pw, !.role = JoiRole(roleIn)]]
           /\ last' = Ev("register", "findOne", 0, "")
     /\ UNCHANGED <<users, nextId, now, ticks, issued, revoked, limits>>

\* the document User.create(userData) builds: setters, defaults, pre-save hash
newUser(email, pw, role) ==
  [exists |-> TRUE, email |-> SchemaEmail(email), password |-> preSave(pw, TRUE),
   role |-> role, refreshToken |-> NoToken, passwordResetToken |-> NoToken,
   passwordResetExpires |-> NoDate, isActive |-> TRUE, updatedAt |-> NoDate]

\* registerUser: User.create takes effect; the token pair is signed
registerUser_create(s) ==
  LET r == req[s]
      doc == newUser(r.inEmail, r.pw, r.role)
  IN /\ r.op = "register" /\ r.pc = "create"
     /\ \/ /\ uniqueIndexAllows(users, 0, doc.email)
           /\ users' = [users EXCEPT ![nextId] = touch(doc, now)]
           /\ nextId' = nextId + 1
           /\ req' = [req EXCEPT ![s] =
                        [r EXCEPT !.pc = "save", !.uid = nextId, !.email = doc.email,
                                  !.mint = generateRefreshToken(nextId, doc.email, doc.role, now)]]
           /\ last' = Ev("register", "create", 0, "")
        \/ /\ ~uniqueIndexAllows(users, 0, doc.email)
           /\ Respond(s, Ev("register", "create", 400, "E11000 duplicate key error"))
           /\ UNCHANGED <<users, nextId>>
     /\ UNCHANGED <<now, ticks, events, issued, revoked, limits>>

\* a register whose welcome mail is sent outside the inner try: its failure
\* reaches the outer catch
registerUser_save_mailFatal(s, mailOk) ==
  LET r == req[s]
  IN /\ r.op = "register" /\ r.pc = "save"
     /\ \/ /\ users[r.uid].exists /\ mailOk
           /\ users' = [users EXCEPT ![r.uid] = touch([@ EXCEPT !.refreshToken = r.mint,
                                                           !.password = preSave(@, FALSE)], now)]
           /\ issued' = issued \cup {r.mint, accessTwin(r.mint)}
           /\ Respond(s, [Ev("register", "save", 201, "User registered successfully")
                            EXCEPT !.uid = r.uid, !.out = r.mint, !.acc = accessTwin(r.mint),
                                   !.mail = sendMail(mailOk),
                                   !.user = successResponse(resultUser, FALSE)])
        \/ /\ users[r.uid].exists /\ ~mailOk
           /\ users' = [users EXCEPT ![r.uid] = touch([@ EXCEPT !.refreshToken = r.mint,
                                                           !.password = preSave(@, FALSE)], now)]
           /\ Respond(s, [Ev("register", "save", 400, "mail transport failed")
                            EXCEPT !.uid = r.uid, !.mail = sendMail(mailOk)])
           /\ UNCHANGED issued
        \/ /\ ~users[r.uid].exists
           /\ Respond(s, Ev("register", "save", 400, "No document found"))
           /\ UNCHANGED <<users, issued>>
     /\ UNCHANGED <<nextId, now, ticks, events, revoked, limits>>

\* registerUser: user.save() of the refresh token takes effect; 201
registerUser_save(s, mailOk) ==
  LET r == req[s]
  IN /\ r.op = "register" /\ r.pc = "save"
     /\ \/ /\ users[r.uid].exists
           /\ users' = [users EXCEPT ![r.uid] = touch([@ EXCEPT !.refreshToken = r.mint,
                                                           !.password = preSave(@, FALSE)], now)]
           /\ issued' = issued \cup {r.mint, accessTwin(r.mint)}
           /\ Respond(s, [Ev("register", "save", 201, "User registered successfully")
                            EXCEPT !.uid = r.uid, !.out = r.mint, !.acc = accessTwin(r.mint),
                                   !.mail = sendMail(mailOk),
                                   !.user = successResponse(resultUser, FALSE)])
        \/ /\ ~users[r.uid].exists
           /\ Respond(s, Ev("register", "save", 400, "No document found"))
           /\ UNCHANGED <<users, issued>>
     /\ UNCHANGED <<nextId, now, ticks, events, revoked, limits>>

\* ------------------------------------------------------------------- login
\* what loginUser(email, password) answers before it writes: <<status, message>>
loginOutcome(us, email, pw) ==
  LET found == findOneByEmail(us, email)
  IN IF found = 0 THEN <<401, "Invalid email or password">>
     ELSE IF ~us[found].isActive THEN <<401, "Account is deactivated. Please contact support.">>
     ELSE IF ~comparePassword(pw, us[found].password) THEN <<401, "Invalid email or password">>
     ELSE <<0, "">>

\* POST /auth/login: validate, then loginUser up to the signing of the tokens
loginUser_findOne(raw, pw) ==
  LET email == JoiEmail(raw)
      found == findOneByEmail(users, email)
      o == loginOutcome(users, email, pw)
  IN /\ CanStart
     /\ events' = events + 1
     /\ \/ /\ o[1] # 0
           /\ last' = Ev("login", "findOne", o[1], o[2])
           /\ UNCHANGED req
        \/ /\ o[1] = 0
           /\ req' = [req EXCEPT ![FreeSlot] =
                        [Idle EXCEPT !.op = "login", !.pc = "save", !.uid = found,
                                     !.email = users[found].email, !.role = users[found].role,
                                     !.mint = generateRefreshToken(found, users[found].email,
                                                                   users[found].role, now)]]
           /\ last' = Ev("login", "findOne", 0, "")
     /\ UNCHANGED <<users, nextId, now, ticks, issued, revoked, limits>>

\* loginUser: user.save() of the refresh token takes effect; 200
loginUser_save(s) ==
  LET r == req[s]
  IN /\ r.op = "login" /\ r.pc = "save"
     /\ \/ /\ users[r.uid].exists
           /\ users' = [users EXCEPT ![r.uid] = touch([@ EXCEPT !.refreshToken = r.mint,
                                                           !.password = preSave(@, FALSE)], now)]
           /\ revoked' = revoked \cup {<<"superseded", t>> : t \in refreshTokensOf(r.uid)}
           /\ issued' = issued \cup {r.mint, accessTwin(r.mint)}
           /\ Respond(s, [Ev("login", "save", 200, "Login successful")
                            EXCEPT !.uid = r.uid, !.out = r.mint, !.acc = accessTwin(r.mint),
                                   !.user = successResponse(resultUser, FALSE)])
        \/ /\ ~users[r.uid].exists
           /\ Respond(s, Ev("login", "save", 401, "No document found"))
           /\ UNCHANGED <<users, issued, revoked>>
     /\ UNCHANGED <<nextId, now, ticks, events, limits>>

\* ----------------------------------------------------------------- refresh
\* a refresh that does not look at isActive
refreshOutcome_noActiveCheck(us, tok, t) ==
  IF tok = NoToken THEN <<400, "Refresh token is required">>
  ELSE IF verifyRefreshToken(tok, t) # "ok" THEN <<401, "Invalid or expired refresh token">>
  ELSE IF findById(us, tok.userId) = 0 THEN <<401, "User not found">>
  ELSE IF us[tok.userId].refreshToken # tok THEN <<401, "Invalid refresh token">>
  ELSE <<200, "Token refreshed successfully">>

\* the outcome of refreshAccessToken(tok) against the store: <<status, message>>
refreshOutcome(us, tok, t) ==
  IF tok = NoToken THEN <<400, "Refresh token is required">>
  ELSE IF verifyRefreshToken(tok, t) # "ok" THEN <<401, "Invalid or expired refresh token">>
  ELSE IF findById(us, tok.userId) = 0 THEN <<401, "User not found">>
  ELSE IF ~us[tok.userId].isActive THEN <<401, "Account is deactivated">>
  ELSE IF us[tok.userId].refreshToken # tok THEN <<401, "Invalid refresh token">>
  ELSE <<200, "Token refreshed successfully">>

\* a refresh that rotates: it stores and returns a new refresh token as well
refreshAccessToken_rotating(tok) ==
  LET o == refreshOutcome(users, tok, now)
      u == users[tok.userId]
      at == generateAccessToken(tok.userId, u.email, u.role, now)
      rt == generateRefreshToken(tok.userId, u.email, u.role, now)
  IN /\ events < limits.events
     /\ events' = events + 1
     /\ \/ /\ o[1] = 200
           /\ users' = [users EXCEPT ![tok.userId] = touch([@ EXCEPT !.refreshToken = rt], now)]
           /\ issued' = issued \cup {at, rt}
           /\ last' = [Ev("refresh", "findById", 200, o[2])
                         EXCEPT !.uid = tok.userId, !.acc = at, !.out = rt]
        \/ /\ o[1] # 200
           /\ last' = Ev("refresh", "findById", o[1], o[2])
           /\ UNCHANGED <<users, issued>>
     /\ UNCHANGED <<nextId, now, ticks, req, revoked, limits>>

\* POST /auth/refresh: one store read, no write
refreshAccessToken(tok) ==
  LET o == refreshOutcome(users, tok, now)
      u == users[tok.userId]
      at == generateAccessToken(tok.userId, u.email, u.role, now)
  IN /\ events < limits.events
     /\ events' = events + 1
     /\ \/ /\ o[1] = 200
           /\ issued' = issued \cup {at}
           /\ last' = [Ev("refresh", "findById", 200, o[2])
                         EXCEPT !.uid = tok.userId, !.acc = at]
        \/ /\ o[1] # 200
           /\ last' = Ev("refresh", "findById", o[1], o[2])
           /\ UNCHANGED issued
     /\ UNCHANGED <<users, nextId, now, ticks, req, revoked, limits>>

\* ----------------------------------------------------- access control gate
\* the Authorization header: its scheme word ("" when the header is absent)
\* and what follows 'Bearer ' (NoToken when nothing does)
NoHeader == [scheme |-> "", token |-> NoToken]
Bearer(tok) == [scheme |-> "Bearer", token |-> tok]
OtherSchemes == {"Basic", "bearer"}

\* every Authorization header a client can build from the tokens it holds
Headers ==
  {NoHeader} \cup {Bearer(t) : t \in TokenInputs}
             \cup {[scheme |-> sc, token |-> t] : sc \in OtherSchemes, t \in TokenInputs \ {NoToken}}

\* the headers the requests of a run carry: under another scheme the gate
\* never reads the token, so one token stands for all
HeaderInputs ==
  {NoHeader} \cup {Bearer(t) : t \in TokenInputs}
             \cup {[scheme |-> sc, token |-> GarbageToken] : sc \in OtherSchemes}

\* authHeader.startsWith('Bearer ') and authHeader.substring(7)
extractBearer(h) == IF h.scheme = "Bearer" THEN h.token ELSE NoToken

\* a gate that binds the user found without looking at isActive
authenticate_noActiveCheck(us, h, t, storeOk) ==
  LET tok == extractBearer(h)
  IN IF tok = NoToken THEN <<401, "Authentication required. Please provide a valid token.">>
     ELSE IF verifyAccessToken(tok, t) = "TokenExpiredError" THEN <<401, "Token expired. Please login again.">>
     ELSE IF verifyAccessToken(tok, t) = "JsonWebTokenError" THEN <<401, "Invalid token. Please login again.">>
     ELSE IF ~storeOk THEN <<500, "Authentication failed. Please try again.">>
     ELSE IF findById(us, tok.userId) = 0 THEN <<401, "User not found. Invalid token.">>
     ELSE <<0, "">>

\* a gate that also wants the user's session to be open: a refresh token stored
authenticate_sessionBound(us, h, t, storeOk) ==
  LET tok == extractBearer(h)
  IN IF tok = NoToken THEN <<401, "Authentication required. Please provide a valid token.">>
     ELSE IF verifyAccessToken(tok, t) = "TokenExpiredError" THEN <<401, "Token expired. Please login again.">>
     ELSE IF verifyAccessToken(tok, t) = "JsonWebTokenError" THEN <<401, "Invalid token. Please login again.">>
     ELSE IF ~storeOk THEN <<500, "Authentication failed. Please try again.">>
     ELSE IF findById(us, tok.userId) = 0 THEN <<401, "User not found. Invalid token.">>
     ELSE IF ~us[tok.userId].isActive THEN <<401, "Account is deactivated. Please contact support.">>
     ELSE IF us[tok.userId].refreshToken = NoToken THEN <<401, "Invalid token. Please login again.">>
     ELSE <<0, "">>

\* authenticate(req, res, next): <<status, message>>, status 0 when req.user is
\* set and next() is called; storeOk: User.findById answers rather than throws
authenticate(us, h, t, storeOk) ==
  LET tok == extractBearer(h)
  IN IF tok = NoToken THEN <<401, "Authentication required. Please provide a valid token.">>
     ELSE IF verifyAccessToken(tok, t) = "TokenExpiredError" THEN <<401, "Token expired. Please login again.">>
     ELSE IF verifyAccessToken(tok, t) = "JsonWebTokenError" THEN <<401, "Invalid token. Please login again.">>
     ELSE IF ~storeOk THEN <<500, "Authentication failed. Please try again.">>
     ELSE IF findById(us, tok.userId) = 0 THEN <<401, "User not found. Invalid token.">>
     ELSE IF ~us[tok.userId].isActive THEN <<401, "Account is deactivated. Please contact support.">>
     ELSE <<0, "">>

\* a role gate that lets every bound user through
authorizeRoles_anyBound(roles, bound, role) ==
  IF ~bound THEN <<401, "Authentication required.">>
  ELSE <<0, "">>

\* authorizeRoles(...roles): <<status, message>> for the user bound to the request
authorizeRoles(roles, bound, role) ==
  IF ~bound THEN <<401, "Authentication required.">>
  ELSE IF role \notin roles THEN <<403, "Access denied.">>
  ELSE <<0, "">>

\* ------------------------------------------------------------------ logout
\* POST /auth/logout: the token gate
logout_authenticate(h, storeOk) ==
  LET tok == extractBearer(h)
      o == authenticate(users, h, now, storeOk)
  IN /\ CanStart
     /\ events' = events + 1
     /\ \/ /\ o[1] # 0
           /\ last' = Ev("logout", "authenticate", o[1], o[2])
           /\ UNCHANGED req
        \/ /\ o[1] = 0
           /\ req' = [req EXCEPT ![FreeSlot] =
                        [Idle EXCEPT !.op = "logout", !.pc = "update", !.uid = tok.userId]]
           /\ last' = [Ev("logout", "authenticate", 0, "") EXCEPT !.uid = tok.userId]
     /\ UNCHANGED <<users, nextId, now, ticks, issued, revoked, limits>>

\* an update that stamps the document and leaves the refresh token stored
logoutUpdate_keepsToken(doc, t) == touch(doc, t)

\* the document after findByIdAndUpdate(id, { $unset: { refreshToken: 1 } })
logoutUpdate(doc, t) == touch([doc EXCEPT !.refreshToken = NoToken], t)

\* logoutUser: findByIdAndUpdate($unset refreshToken) takes effect; 200
logoutUser(s) ==
  LET r == req[s]
      old == users[r.uid].refreshToken
  IN /\ r.op = "logout" /\ r.pc = "update"
     /\ users' = IF users[r.uid].exists
                 THEN [users EXCEPT ![r.uid] = logoutUpdate(@, now)]
                 ELSE users
     /\ revoked' = IF users[r.uid].exists /\ old # NoToken
                   THEN revoked \cup {<<"logout", old>>}
                   ELSE revoked
     /\ Respond(s, [Ev("logout", "update", 200, "Logout successful") EXCEPT !.uid = r.uid])
     /\ UNCHANGED <<nextId, now, ticks, events, issued, limits>>

\* --------------------------------------------------------- forgot password
\* a forgot-password that tells the caller when no account has the email
generatePasswordReset_findOne_reveals(raw) ==
  LET email == JoiEmail(raw)
      found == findOneByEmail(users, email)
  IN /\ CanStart
     /\ events' = events + 1
     /\ \/ /\ found = 0
           /\ last' = Ev("forgotPassword", "findOne", 404, "User not found")
           /\ UNCHANGED req
        \/ /\ found # 0
           /\ req' = [req EXCEPT ![FreeSlot] =
                        [Idle EXCEPT !.op = "forgotPassword", !.pc = "save", !.uid = found,
                                     !.mint = generatePasswordResetToken(found, users[found].email, now),
                                     !.expires = now + ResetExpiresMs]]
           /\ last' = Ev("forgotPassword", "findOne", 0, "")
     /\ UNCHANGED <<users, nextId, now, ticks, issued, revoked, limits>>

\* POST /auth/forgot-password: validate, generatePasswordReset up to the signing
generatePasswordReset_findOne(raw) ==
  LET email == JoiEmail(raw)
      found == findOneByEmail(users, email)
  IN /\ CanStart
     /\ events' = events + 1
     /\ \/ /\ found = 0
           /\ last' = Ev("forgotPassword", "findOne", 200, "If an account with that email exists, a password reset link has been sent.")
           /\ UNCHANGED req
        \/ /\ found # 0
           /\ req' = [req EXCEPT ![FreeSlot] =
                        [Idle EXCEPT !.op = "forgotPassword", !.pc = "save", !.uid = found,
                                     !.mint = generatePasswordResetToken(found, users[found].email, now),
                                     !.expires = now + ResetExpiresMs]]
           /\ last' = Ev("forgotPassword", "findOne", 0, "")
     /\ UNCHANGED <<users, nextId, now, ticks, issued, revoked, limits>>

\* generatePasswordReset: user.save() of both reset fields takes effect; the
\* reset mail reaches the client or not; 200
generatePasswordReset_save(s, mailOk) ==
  LET r == req[s]
  IN /\ r.op = "forgotPassword" /\ r.pc = "save"
     /\ \/ /\ users[r.uid].exists
           /\ users' = [users EXCEPT ![r.uid] =
                          touch([@ EXCEPT !.passwordResetToken = r.mint,
                                          !.passwordResetExpires = r.expires], now)]
           /\ issued' = IF mailOk THEN issued \cup {r.mint} ELSE issued
           /\ revoked' = IF users[r.uid].passwordResetToken # NoToken
                         THEN revoked \cup {<<"replaced", users[r.uid].passwordResetToken>>}
                         ELSE revoked
           /\ Respond(s, [Ev("forgotPassword", "save", 200, "If an account with that email exists, a password reset link has been sent.")
                            EXCEPT !.uid = r.uid, !.mail = sendMail(mailOk)])
        \/ /\ ~users[r.uid].exists
           /\ mailOk
           /\ Respond(s, Ev("forgotPassword", "save", 500, "Failed to process password reset request."))
           /\ UNCHANGED <<users, issued, revoked>>
     /\ UNCHANGED <<nextId, now, ticks, events, limits>>

\* ---------------------------------------------------------- reset password
\* User.findOne({ _id, passwordResetToken: token })
findOneByReset(us, tok) ==
  IF tok.userId \in DOMAIN us /\ us[tok.userId].exists
     /\ us[tok.userId].passwordResetToken = tok
  THEN tok.userId ELSE 0

\* user.passwordResetExpires < new Date() (false when the field is undefined)
resetExpired(expires, t) == expires # NoDate /\ expires < t

\* what resetPassword(token) answers before it writes: <<status, message>>
resetOutcome(us, tok, t) ==
  IF tok = NoToken THEN <<400, "Validation failed">>
  ELSE IF verifyPasswordResetToken(tok, t) # "ok" THEN <<400, "Invalid or expired reset token">>
  ELSE IF findOneByReset(us, tok) = 0 THEN <<400, "Invalid or expired reset token">>
  ELSE IF resetExpired(us[tok.userId].passwordResetExpires, t) THEN <<400, "Reset token has expired">>
  ELSE <<0, "">>

\* POST /auth/reset-password: validate, then resetPassword up to its checks
\* (history, in the request's mint: the refresh token stored as the reset begins)
resetPassword_findOne(tok, pw) ==
  LET o == resetOutcome(users, tok, now)
  IN /\ CanStart
     /\ events' = events + 1
     /\ \/ /\ o[1] # 0
           /\ last' = Ev("resetPassword", "findOne", o[1], o[2])
           /\ UNCHANGED req
        \/ /\ o[1] = 0
           /\ req' = [req EXCEPT ![FreeSlot] =
                        [Idle EXCEPT !.op = "resetPassword", !.pc = "save1", !.uid = tok.userId,
                                     !.pw = pw, !.tok = tok,
                                     !.mint = users[tok.userId].refreshToken]]
           /\ last' = Ev("resetPassword", "findOne", 0, "")
     /\ UNCHANGED <<users, nextId, now, ticks, issued, revoked, limits>>

\* a first save that leaves passwordResetExpires in place
resetFieldsCleared_tokenOnly(doc, pw) ==
  [doc EXCEPT !.password = preSave(pw, TRUE), !.passwordResetToken = NoToken]

\* the document after resetPassword's first save: new hash, reset fields unset
resetFieldsCleared(doc, pw) ==
  [doc EXCEPT !.password = preSave(pw, TRUE), !.passwordResetToken = NoToken,
              !.passwordResetExpires = NoDate]

\* the input password a stored hash is the digest of ("" when of none)
passwordOf(hash) ==
  IF \E p \in Passwords : comparePassword(p, hash)
  THEN CHOOSE p \in Passwords : comparePassword(p, hash)
  ELSE ""

\* resetPassword: the first user.save() takes effect (history, in the
\* request's cur: the password this write replaces)
resetPassword_save1(s) ==
  LET r == req[s]
  IN /\ r.op = "resetPassword" /\ r.pc = "save1"
     /\ \/ /\ users[r.uid].exists
           /\ users' = [users EXCEPT ![r.uid] = touch(resetFieldsCleared(users[r.uid], r.pw), now)]
           /\ revoked' = revoked \cup {IF <<"used", r.tok>> \in revoked
                                         THEN <<"reused", r.tok>> ELSE <<"used", r.tok>>}
           /\ req' = [req EXCEPT ![s] = [r EXCEPT !.pc = "save2",
                                                  !.cur = passwordOf(users[r.uid].password)]]
           /\ last' = [Ev("resetPassword", "save1", 0, "") EXCEPT !.uid = r.uid]
        \/ /\ ~users[r.uid].exists
           /\ Respond(s, Ev("resetPassword", "save1", 400, "No document found"))
           /\ UNCHANGED <<users, revoked>>
     /\ UNCHANGED <<nextId, now, ticks, events, issued, limits>>

\* resetPassword: the second user.save() (refresh token unset) takes effect; 200
resetPassword_save2(s) ==
  LET r == req[s]
  IN /\ r.op = "resetPassword" /\ r.pc = "save2"
     /\ \/ /\ users[r.uid].exists
           /\ users' = [users EXCEPT ![r.uid] = touch([@ EXCEPT !.refreshToken = NoToken,
                                                           !.password = preSave(@, FALSE)], now)]
           /\ revoked' = revoked \cup {<<"reset", t>> : t \in refreshTokensOf(r.uid)}
           /\ Respond(s, [Ev("resetPassword", "save2", 200, "Password reset successful. Please login with your new password.")
                            EXCEPT !.uid = r.uid])
        \/ /\ ~users[r.uid].exists
           /\ Respond(s, Ev("resetPassword", "save2", 400, "No document found"))
           /\ UNCHANGED <<users, revoked>>
     /\ UNCHANGED <<nextId, now, ticks, events, issued, limits>>

\* ---------------------------------------------------------- update profile
\* a schema that lets a role key of the body through
updateProfileSchema_keepsRole(roleIn) == roleIn

\* validate(updateProfileSchema, body): the role of the validated value; the
\* schema has name and email only and stripUnknown drops every other key
updateProfileSchema(roleIn) == "absent"

\* the role part of { $set: value }
setRole(doc, role) == IF role \in Roles THEN [doc EXCEPT !.role = role] ELSE doc

\* PUT /users/profile: the token gate, validation and the choice of the next
\* store operation (the email is looked up only when it differs from req.user's)
updateProfile_authenticate(h, storeOk, raw, roleIn) ==
  LET tok == extractBearer(h)
      o == authenticate(users, h, now, storeOk)
      email == IF raw = "absent" THEN "" ELSE JoiEmail(raw)
      lookup == email # "" /\ email # users[tok.userId].email
  IN /\ CanStart
     /\ events' = events + 1
     /\ \/ /\ o[1] # 0
           /\ last' = Ev("updateProfile", "authenticate", o[1], o[2])
           /\ UNCHANGED req
        \/ /\ o[1] = 0
           /\ req' = [req EXCEPT ![FreeSlot] =
                        [Idle EXCEPT !.op = "updateProfile",
                                     !.pc = IF lookup THEN "findOne" ELSE "update",
                                     !.uid = tok.userId, !.inEmail = email,
                                     !.role = updateProfileSchema(roleIn)]]
           /\ last' = [Ev("updateProfile", "authenticate", 0, "") EXCEPT !.uid = tok.userId]
     /\ UNCHANGED <<users, nextId, now, ticks, issued, revoked, limits>>

\* updateProfile: User.findOne({ email }) takes effect
updateProfile_findOne(s) ==
  LET r == req[s]
  IN /\ r.op = "updateProfile" /\ r.pc = "findOne"
     /\ \/ /\ findOneByEmail(users, r.inEmail) # 0
           /\ Respond(s, Ev("updateProfile", "findOne", 400, "Email already in use"))
        \/ /\ findOneByEmail(users, r.inEmail) = 0
           /\ req' = [req EXCEPT ![s].pc = "update"]
           /\ last' = Ev("updateProfile", "findOne", 0, "")
     /\ UNCHANGED <<users, nextId, now, ticks, events, issued, revoked, limits>>

\* updateProfile: User.findByIdAndUpdate(id, { $set: value }) takes effect
updateProfile_findByIdAndUpdate(s) ==
  LET r == req[s]
      writes == r.inEmail # "" /\ users[r.uid].exists
  IN /\ r.op = "updateProfile" /\ r.pc = "update"
     /\ \/ /\ ~writes
           /\ Respond(s, [Ev("updateProfile", "update", 200, "Profile updated successfully")
                            EXCEPT !.uid = r.uid,
                                   !.user = IF users[r.uid].exists
                                            THEN successResponse(queryPaths({}, {}), TRUE)
                                            ELSE {}])
           /\ users' = IF users[r.uid].exists
                       THEN [users EXCEPT ![r.uid] = touch(setRole(@, r.role), now)]
                       ELSE users
        \/ /\ writes /\ uniqueIndexAllows(users, r.uid, r.inEmail)
           /\ users' = [users EXCEPT ![r.uid] =
                          touch(setRole([@ EXCEPT !.email = r.inEmail], r.role), now)]
           /\ Respond(s, [Ev("updateProfile", "update", 200, "Profile updated successfully")
                            EXCEPT !.uid = r.uid,
                                   !.user = successResponse(queryPaths({}, {}), TRUE)])
        \/ /\ writes /\ ~uniqueIndexAllows(users, r.uid, r.inEmail)
           /\ Respond(s, Ev("updateProfile", "update", 500, "Failed to update profile"))
           /\ UNCHANGED users
     /\ UNCHANGED <<nextId, now, ticks, events, issued, revoked, limits>>

\* --------------------------------------------------------- change password
\* PUT /users/change-password: the token gate and validation
changePassword_authenticate(h, storeOk, cur, new) ==
  LET tok == extractBearer(h)
      o == authenticate(users, h, now, storeOk)
  IN /\ CanStart
     /\ events' = events + 1
     /\ \/ /\ o[1] # 0
           /\ last' = Ev("changePassword", "authenticate", o[1], o[2])
           /\ UNCHANGED req
        \/ /\ o[1] = 0
           /\ req' = [req EXCEPT ![FreeSlot] =
                        [Idle EXCEPT !.op = "changePassword", !.pc = "findById",
                                     !.uid = tok.userId, !.cur = cur, !.pw = new]]
           /\ last' = [Ev("changePassword", "authenticate", 0, "") EXCEPT !.uid = tok.userId]
     /\ UNCHANGED <<users, nextId, now, ticks, issued, revoked, limits>>

\* changePassword: User.findById(...).select('+password') and comparePassword
changePassword_findById(s) ==
  LET r == req[s]
      u == users[r.uid]
  IN /\ r.op = "changePassword" /\ r.pc = "findById"
     /\ \/ /\ ~u.exists
           /\ Respond(s, Ev("changePassword", "findById", 404, "User not found"))
        \/ /\ u.exists /\ ~comparePassword(r.cur, u.password)
           /\ Respond(s, Ev("changePassword", "findById", 400, "Current password is incorrect"))
        \/ /\ u.exists /\ comparePassword(r.cur, u.password)
           /\ req' = [req EXCEPT ![s] = [r EXCEPT !.pc = "save1", !.email = u.email, !.role = u.role]]
           /\ last' = Ev("changePassword", "findById", 0, "")
     /\ UNCHANGED <<users, nextId, now, ticks, events, issued, revoked, limits>>

\* changePassword: user.save() of the new password takes effect; tokens signed
\* (history, in the request's cur: the password this write replaces)
changePassword_save1(s) ==
  LET r == req[s]
  IN /\ r.op = "changePassword" /\ r.pc = "save1"
     /\ \/ /\ users[r.uid].exists
           /\ users' = [users EXCEPT ![r.uid] = touch([@ EXCEPT !.password = preSave(r.pw, TRUE)], now)]
           /\ req' = [req EXCEPT ![s] =
                        [r EXCEPT !.pc = "save2",
                                  !.cur = passwordOf(users[r.uid].password),
                                  !.mint = generateRefreshToken(r.uid, r.email, r.role, now)]]
           /\ last' = [Ev("changePassword", "save1", 0, "") EXCEPT !.uid = r.uid]
        \/ /\ ~users[r.uid].exists
           /\ Respond(s, Ev("changePassword", "save1", 500, "Failed to change password"))
           /\ UNCHANGED users
     /\ UNCHANGED <<nextId, now, ticks, events, issued, revoked, limits>>

\* changePassword: user.save() of the refresh token takes effect; 200
changePassword_save2(s) ==
  LET r == req[s]
  IN /\ r.op = "changePassword" /\ r.pc = "save2"
     /\ \/ /\ users[r.uid].exists
           /\ users' = [users EXCEPT ![r.uid] = touch([@ EXCEPT !.refreshToken = r.mint,
                                                           !.password = preSave(@, FALSE)], now)]
           /\ revoked' = revoked \cup {<<"superseded", t>> : t \in refreshTokensOf(r.uid)}
                                 \cup {<<"changed", users[r.uid].refreshToken>>}
           /\ issued' = issued \cup {r.mint, accessTwin(r.mint)}
           /\ Respond(s, [Ev("changePassword", "save2", 200, "Password changed successfully")
                            EXCEPT !.uid = r.uid, !.out = r.mint, !.acc = accessTwin(r.mint)])
        \/ /\ ~users[r.uid].exists
           /\ Respond(s, Ev("changePassword", "save2", 500, "Failed to change password"))
           /\ UNCHANGED <<users, issued, revoked>>
     /\ UNCHANGED <<nextId, now, ticks, events, limits>>

\* ------------------------------------------------------------- get profile
\* GET /users/profile: the token gate
getProfile_authenticate(h, storeOk) ==
  LET tok == extractBearer(h)
      o == authenticate(users, h, now, storeOk)
  IN /\ CanStart
     /\ events' = events + 1
     /\ \/ /\ o[1] # 0
           /\ last' = Ev("getProfile", "authenticate", o[1], o[2])
           /\ UNCHANGED req
        \/ /\ o[1] = 0
           /\ req' = [req EXCEPT ![FreeSlot] =
                        [Idle EXCEPT !.op = "getProfile", !.pc = "findById", !.uid = tok.userId]]
           /\ last' = [Ev("getProfile", "authenticate", 0, "") EXCEPT !.uid = tok.userId]
     /\ UNCHANGED <<users, nextId, now, ticks, issued, revoked, limits>>

\* getProfile: User.findById(req.user._id) answers
getProfile_findById(s) ==
  LET r == req[s]
  IN /\ r.op = "getProfile" /\ r.pc = "findById"
     /\ \/ /\ findById(users, r.uid) = 0
           /\ Respond(s, Ev("getProfile", "findById", 404, "User not found"))
        \/ /\ findById(users, r.uid) # 0
           /\ Respond(s, [Ev("getProfile", "findById", 200, "Profile retrieved successfully")
                            EXCEPT !.uid = r.uid,
                                   !.user = successResponse(queryPaths({}, {}), TRUE)])
     /\ UNCHANGED <<users, nextId, now, ticks, events, issued, revoked, limits>>

\* ----------------------------------------------------------- get all users
\* GET /users: the token gate, then the role gate for 'admin'
getAllUsers_authenticate(h, storeOk) ==
  LET tok == extractBearer(h)
      o == authenticate(users, h, now, storeOk)
      g == authorizeRoles({"admin"}, TRUE, users[tok.userId].role)
  IN /\ CanStart
     /\ events' = events + 1
     /\ \/ /\ o[1] # 0
           /\ last' = Ev("getAllUsers", "authenticate", o[1], o[2])
           /\ UNCHANGED req
        \/ /\ o[1] = 0 /\ g[1] # 0
           /\ last' = [Ev("getAllUsers", "authorizeRoles", g[1], g[2]) EXCEPT !.uid = tok.userId]
           /\ UNCHANGED req
        \/ /\ o[1] = 0 /\ g[1] = 0
           /\ req' = [req EXCEPT ![FreeSlot] =
                        [Idle EXCEPT !.op = "getAllUsers", !.pc = "find", !.uid = tok.userId]]
           /\ last' = [Ev("getAllUsers", "authorizeRoles", 0, "") EXCEPT !.uid = tok.userId]
     /\ UNCHANGED <<users, nextId, now, ticks, issued, revoked, limits>>

\* getAllUsers: User.find() answers
getAllUsers_find(s) ==
  LET r == req[s]
  IN /\ r.op = "getAllUsers" /\ r.pc = "find"
     /\ Respond(s, [Ev("getAllUsers", "find", 200, "Users retrieved successfully")
                      EXCEPT !.user = IF \E id \in Ids : users[id].exists
                                      THEN successResponse(queryPaths({}, {"refreshToken"}), TRUE)
                                      ELSE {}])
     /\ UNCHANGED <<users, nextId, now, ticks, events, issued, revoked, limits>>

\* ---------------------------------------------------------- get user by id
\* GET /users/:id: the token gate, then the role gate for 'admin'
getUserById_authenticate(h, storeOk, target) ==
  LET tok == extractBearer(h)
      o == authenticate(users, h, now, storeOk)
      g == authorizeRoles({"admin"}, TRUE, users[tok.userId].role)
  IN /\ CanStart
     /\ events' = events + 1
     /\ \/ /\ o[1] # 0
           /\ last' = Ev("getUserById", "authenticate", o[1], o[2])
           /\ UNCHANGED req
        \/ /\ o[1] = 0 /\ g[1] # 0
           /\ last' = [Ev("getUserById", "authorizeRoles", g[1], g[2]) EXCEPT !.uid = tok.userId]
           /\ UNCHANGED req
        \/ /\ o[1] = 0 /\ g[1] = 0
           /\ req' = [req EXCEPT ![FreeSlot] =
                        [Idle EXCEPT !.op = "getUserById", !.pc = "findById",
                                     !.uid = tok.userId, !.target = target]]
           /\ last' = [Ev("getUserById", "authorizeRoles", 0, "") EXCEPT !.uid = tok.userId]
     /\ UNCHANGED <<users, nextId, now, ticks, issued, revoked, limits>>

\* what getUserById answers for :id against the store: <<status, message>>
getUserByIdOutcome(us, id) ==
  IF findById(us, id) = 0 THEN <<404, "User not found">>
  ELSE <<200, "User retrieved successfully">>

\* getUserById: User.findById(req.params.id) answers
getUserById_findById(s) ==
  LET r == req[s]
      o == getUserByIdOutcome(users, r.target)
  IN /\ r.op = "getUserById" /\ r.pc = "findById"
     /\ Respond(s, [Ev("getUserById", "findById", o[1], o[2])
                      EXCEPT !.uid = r.target,
                             !.user = IF o[1] = 200
                                      THEN successResponse(queryPaths({}, {}), TRUE)
                                      ELSE {}])
     /\ UNCHANGED <<users, nextId, now, ticks, events, issued, revoked, limits>>

\* ------------------------------------------------------------- delete user
\* DELETE /users/:id: the token gate, then the role gate for 'admin'
deleteUser_authenticate(h, storeOk, target) ==
  LET tok == extractBearer(h)
      o == authenticate(users, h, now, storeOk)
      g == authorizeRoles({"admin"}, TRUE, users[tok.userId].role)
  IN /\ CanStart
     /\ events' = events + 1
     /\ \/ /\ o[1] # 0
           /\ last' = Ev("deleteUser", "authenticate", o[1], o[2])
           /\ UNCHANGED req
        \/ /\ o[1] = 0 /\ g[1] # 0
           /\ last' = [Ev("deleteUser", "authorizeRoles", g[1], g[2]) EXCEPT !.uid = tok.userId]
           /\ UNCHANGED req
        \/ /\ o[1] = 0 /\ g[1] = 0
           /\ req' = [req EXCEPT ![FreeSlot] =
                        [Idle EXCEPT !.op = "deleteUser", !.pc = "findById",
                                     !.uid = tok.userId, !.target = target]]
           /\ last' = [Ev("deleteUser", "authorizeRoles", 0, "") EXCEPT !.uid = tok.userId]
     /\ UNCHANGED <<users, nextId, now, ticks, issued, revoked, limits>>

\* a deleteUser without the self-deletion check
deleteUser_findById_noSelfCheck(s) ==
  LET r == req[s]
  IN /\ r.op = "deleteUser" /\ r.pc = "findById"
     /\ \/ /\ findById(users, r.target) = 0
           /\ Respond(s, Ev("deleteUser", "findById", 404, "User not found"))
        \/ /\ findById(users, r.target) # 0
           /\ req' = [req EXCEPT ![s].pc = "delete"]
           /\ last' = Ev("deleteUser", "findById", 0, "")
     /\ UNCHANGED <<users, nextId, now, ticks, events, issued, revoked, limits>>

\* deleteUser: User.findById(req.params.id) and the self-deletion check
deleteUser_findById(s) ==
  LET r == req[s]
  IN /\ r.op = "deleteUser" /\ r.pc = "findById"
     /\ \/ /\ findById(users, r.target) = 0
           /\ Respond(s, Ev("deleteUser", "findById", 404, "User not found"))
        \/ /\ findById(users, r.target) # 0 /\ r.target = r.uid
           /\ Respond(s, Ev("deleteUser", "findById", 400, "You cannot delete your own account"))
        \/ /\ findById(users, r.target) # 0 /\ r.target # r.uid
           /\ req' = [req EXCEPT ![s].pc = "delete"]
           /\ last' = Ev("deleteUser", "findById", 0, "")
     /\ UNCHANGED <<users, nextId, now, ticks, events, issued, revoked, limits>>

\* deleteUser: User.findByIdAndDelete takes effect; 200
deleteUser_findByIdAndDelete(s) ==
  LET r == req[s]
  IN /\ r.op = "deleteUser" /\ r.pc = "delete"
     /\ users' = [users EXCEPT ![r.target] = NoUser]
     /\ Respond(s, [Ev("deleteUser", "delete", 200, "User deleted successfully") EXCEPT !.uid = r.target])
     /\ UNCHANGED <<nextId, now, ticks, events, issued, revoked, limits>>

\* ------------------------------------------------------------- environment
\* the clock advances
Tick(d) ==
  /\ ticks < limits.ticks /\ events < limits.events
  /\ now' = now + d
  /\ ticks' = ticks + 1 /\ events' = events + 1
  /\ last' = Ev("tick", "", 0, "")
  /\ UNCHANGED <<users, nextId, req, issued, revoked, limits>>

\* an operator of the store sets isActive to false on a document
Deactivate(id) ==
  /\ users[id].exists /\ users[id].isActive /\ events < limits.events
  /\ users' = [users EXCEPT ![id].isActive = FALSE] /\ events' = events + 1
  /\ last' = [Ev("deactivate", "", 0, "") EXCEPT !.uid = id]
  /\ UNCHANGED <<nextId, now, ticks, req, issued, revoked, limits>>

\* ------------------------------------------------------------------- runs
\* the store once register {a@x.com, secret1, admin} and register {b@x.com,
\* secret2} have completed at time 0, and the four tokens they returned
SeededUser(id, email, pw, role) ==
  touch([newUser(email, pw, role) EXCEPT !.refreshToken = generateRefreshToken(id, email, role, 0)], 0)

SeededUsers ==
  [i \in Ids |-> CASE i = 1 -> SeededUser(1, "a@x.com", "secret1", "admin")
                  [] i = 2 -> SeededUser(2, "b@x.com", "secret2", "user")
                  [] OTHER -> NoUser]

SeededTokens ==
  UNION {{SeededUsers[i].refreshToken, accessTwin(SeededUsers[i].refreshToken)} : i \in {1, 2}}

InitAccounts ==
  /\ users = SeededUsers
  /\ nextId = 3
  /\ now = 0
  /\ ticks = 0
  /\ req = [s \in Slots |-> Idle]
  /\ events = 0
  /\ issued = SeededTokens
  /\ revoked = {}
  /\ last = NoEvent
  /\ limits = [users |-> 2, events |-> AccountEvents,
               inflight |-> AccountInFlight, ticks |-> AccountTicks]

Next ==
  \/ \E raw \in RawEmails, pw \in Passwords, r \in RoleInputs : registerUser_findOne(raw, pw, r)
  \/ \E s \in Slots : registerUser_create(s)
  \/ \E s \in Slots, mailOk \in BOOLEAN : registerUser_save(s, mailOk)
  \/ \E raw \in RawEmails, pw \in Passwords : loginUser_findOne(raw, pw)
  \/ \E s \in Slots : loginUser_save(s)
  \/ \E tok \in TokenInputs : refreshAccessToken(tok)
  \/ \E h \in HeaderInputs, ok \in BOOLEAN : logout_authenticate(h, ok)
  \/ \E s \in Slots : logoutUser(s)
  \/ \E raw \in RawEmails : generatePasswordReset_findOne(raw)
  \/ \E s \in Slots, mailOk \in BOOLEAN : generatePasswordReset_save(s, mailOk)
  \/ \E tok \in TokenInputs, pw \in Passwords : resetPassword_findOne(tok, pw)
  \/ \E s \in Slots : resetPassword_save1(s)
  \/ \E s \in Slots : resetPassword_save2(s)
  \/ \E h \in HeaderInputs, ok \in BOOLEAN, raw \in RawEmails \cup {"absent"},
        roleIn \in RoleInputs : updateProfile_authenticate(h, ok, raw, roleIn)
  \/ \E s \in Slots : updateProfile_findOne(s)
  \/ \E s \in Slots : updateProfile_findByIdAndUpdate(s)
  \/ \E h \in HeaderInputs, ok \in BOOLEAN, cur \in Passwords, new \in Passwords :
       changePassword_authenticate(h, ok, cur, new)
  \/ \E s \in Slots : changePassword_findById(s)
  \/ \E s \in Slots : changePassword_save1(s)
  \/ \E s \in Slots : changePassword_save2(s)
  \/ \E h \in HeaderInputs, ok \in BOOLEAN, target \in Ids : deleteUser_authenticate(h, ok, target)
  \/ \E s \in Slots : deleteUser_findById(s)
  \/ \E s \in Slots : deleteUser_findByIdAndDelete(s)
  \/ \E h \in HeaderInputs, ok \in BOOLEAN : getProfile_authenticate(h, ok)
  \/ \E s \in Slots : getProfile_findById(s)
  \/ \E h \in HeaderInputs, ok \in BOOLEAN : getAllUsers_authenticate(h, ok)
  \/ \E s \in Slots : getAllUsers_find(s)
  \/ \E h \in HeaderInputs, ok \in BOOLEAN, target \in Ids : getUserById_authenticate(h, ok, target)
  \/ \E s \in Slots : getUserById_findById(s)
  \/ \E d \in TimeSteps : Tick(d)
  \/ \E id \in Ids : Deactivate(id)

\* the authentication service alone: its six operations and the clock
NextSession ==
  \/ \E raw \in RawEmails, pw \in Passwords, r \in RoleInputs : registerUser_findOne(raw, pw, r)
  \/ \E s \in Slots : registerUser_create(s)
  \/ \E s \in Slots, mailOk \in BOOLEAN : registerUser_save(s, mailOk)
  \/ \E raw \in RawEmails, pw \in Passwords : loginUser_findOne(raw, pw)
  \/ \E s \in Slots : loginUser_save(s)
  \/ \E tok \in TokenInputs : refreshAccessToken(tok)
  \/ \E h \in HeaderInputs, ok \in BOOLEAN : logout_authenticate(h, ok)
  \/ \E s \in Slots : logoutUser(s)
  \/ \E raw \in RawEmails : generatePasswordReset_findOne(raw)
  \/ \E s \in Slots, mailOk \in BOOLEAN : generatePasswordReset_save(s, mailOk)
  \/ \E tok \in TokenInputs, pw \in Passwords : resetPassword_findOne(tok, pw)
  \/ \E s \in Slots : resetPassword_save1(s)
  \/ \E s \in Slots : resetPassword_save2(s)
  \/ \E d \in TimeSteps : Tick(d)

\* the protected routes and the session endpoints of two registered accounts
NextAccounts ==
  \/ \E raw \in RawEmails, pw \in Passwords : loginUser_findOne(raw, pw)
  \/ \E s \in Slots : loginUser_save(s)
  \/ \E tok \in TokenInputs : refreshAccessToken(tok)
  \/ \E h \in HeaderInputs, ok \in BOOLEAN : logout_authenticate(h, ok)
  \/ \E s \in Slots : logoutUser(s)
  \/ \E h \in HeaderInputs, ok \in BOOLEAN, raw \in RawEmails \cup {"absent"},
        roleIn \in RoleInputs : updateProfile_authenticate(h, ok, raw, roleIn)
  \/ \E s \in Slots : updateProfile_findOne(s)
  \/ \E s \in Slots : updateProfile_findByIdAndUpdate(s)
  \/ \E h \in HeaderInputs, ok \in BOOLEAN, cur \in Passwords, new \in Passwords :
       changePassword_authenticate(h, ok, cur, new)
  \/ \E s \in Slots : changePassword_findById(s)
  \/ \E s \in Slots : changePassword_save1(s)
  \/ \E s \in Slots : changePassword_save2(s)
  \/ \E h \in HeaderInputs, ok \in BOOLEAN, target \in Ids : deleteUser_authenticate(h, ok, target)
  \/ \E s \in Slots : deleteUser_findById(s)
  \/ \E s \in Slots : deleteUser_findByIdAndDelete(s)
  \/ \E h \in HeaderInputs, ok \in BOOLEAN : getProfile_authenticate(h, ok)
  \/ \E s \in Slots : getProfile_findById(s)
  \/ \E h \in HeaderInputs, ok \in BOOLEAN : getAllUsers_authenticate(h, ok)
  \/ \E s \in Slots : getAllUsers_find(s)
  \/ \E h \in HeaderInputs, ok \in BOOLEAN, target \in Ids : getUserById_authenticate(h, ok, target)
  \/ \E s \in Slots : getUserById_findById(s)
  \/ \E d \in TimeSteps : Tick(d)
  \/ \E id \in Ids : Deactivate(id)

Spec == Init /\ [][Next]_vars
SpecAccounts == InitAccounts /\ [][NextAccounts]_vars
SpecSession == InitSession /\ [][NextSession]_vars

\* ================================================================= claims
\* would refresh(tok) be answered with a new access token in this state?
refreshAccepted(tok) == refreshOutcome(users, tok, now)[1] = 200

\* the tokens of history entries with the given cause
revokedBy(cause) == {p[2] : p \in {q \in revoked : q[1] = cause}}

\* C1: refresh with the stored refresh token of an active user is accepted
\* while the token is unexpired, and once a later login (or change-password)
\* of a user has been written, no refresh with a refresh token issued to that
\* user before it is accepted.
C1_StaleRefreshRejected ==
  /\ \A id \in Ids :
       (/\ users[id].exists /\ users[id].isActive
        /\ users[id].refreshToken # NoToken
        /\ users[id].refreshToken.userId = id
        /\ verifyRefreshToken(users[id].refreshToken, now) = "ok")
       => refreshAccepted(users[id].refreshToken)
  /\ \A t \in revokedBy("superseded") : ~refreshAccepted(t)

\* C2: a successful login returns a refresh token that was not returned to
\* that user before (by the registration or by an earlier login).
C2_LoginTokenIsNew ==
  [][(last'.op = "login" /\ last'.status = 200) => last'.out \notin issued]_vars

\* C3: after logout has completed, no refresh with the refresh token that was
\* stored for the user before the logout is accepted, in any later state.
C3_RefreshAfterLogoutRejected == \A t \in revokedBy("logout") : ~refreshAccepted(t)

\* the issued reset tokens whose validity period (expiresIn: 1h) has elapsed
ExpiredResetTokens ==
  {t \in issued : mintedAs(t, "reset") /\ verifyPasswordResetToken(t, now) = "TokenExpiredError"}

\* C4: completePasswordReset with an issued reset token whose validity period
\* has elapsed answers 'Reset token has expired'; with a token that does not
\* verify under the reset secret it answers 'Invalid or expired reset token'.
C4_ExpiredResetAnswer ==
  /\ \A t \in ExpiredResetTokens :
       resetOutcome(users, t, now) = <<400, "Reset token has expired">>
  /\ \A t \in TokenInputs \ {NoToken} :
       ~mintedAs(t, "reset") => resetOutcome(users, t, now) = <<400, "Invalid or expired reset token">>

\* C5: once completePasswordReset has returned success, no refresh with a
\* refresh token issued to that user before the reset is accepted, and right
\* after the reset the user has no stored refresh token.
C5_RefreshAfterResetRejected ==
  /\ \A t \in revokedBy("reset") : ~refreshAccepted(t)
  /\ (last.op = "resetPassword" /\ last.status = 200)
       => users[last.uid].refreshToken = NoToken

\* C6: a reset token changes a password at most once, over every sequence and
\* interleaving of completePasswordReset requests that carry it.
C6_ResetTokenSingleUse == revokedBy("reused") = {}

\* for every user, passwordResetExpires is set iff passwordResetToken is set
ResetFieldsPaired ==
  \A id \in Ids :
    (users[id].passwordResetToken = NoToken) <=> (users[id].passwordResetExpires = NoDate)

\* a step changes a reset field of a document only if it is the save of
\* requestPasswordReset or the first save of completePasswordReset
ResetFieldsFrame ==
  \A id \in Ids :
    (/\ users[id].exists /\ users'[id].exists
     /\ \/ users'[id].passwordResetToken # users[id].passwordResetToken
        \/ users'[id].passwordResetExpires # users[id].passwordResetExpires)
    => \/ last'.op = "forgotPassword" /\ last'.step = "save"
       \/ last'.op = "resetPassword" /\ last'.step = "save1"

\* C7: in every reachable state and for every user, passwordResetExpires is
\* set if and only if passwordResetToken is set, and only requestPasswordReset
\* and completePasswordReset write either field.
C7_ResetFieldsPaired == [][ResetFieldsPaired' /\ ResetFieldsFrame]_vars

C7_Witness ==
  /\ last.op = "forgotPassword" /\ last.step = "save" /\ last.status = 200
  /\ users[last.uid].passwordResetToken # NoToken
  /\ users[last.uid].passwordResetExpires # NoDate

\* does an existing user hold this email, letter case ignored?
emailTaken(raw) ==
  \E id \in Ids : users[id].exists /\ toLowerCase(users[id].email) = toLowerCase(raw)

\* C8: a register request whose email equals, ignoring letter case, the email
\* of an existing user is answered 400 'User with this email already exists',
\* creates no user, mints no token and leaves the store unchanged.
C8_DuplicateRegisterConflict ==
  [][\A raw \in RawEmails, pw \in Passwords, r \in RoleInputs :
       (registerUser_findOne(raw, pw, r) /\ emailTaken(raw))
       => /\ last'.status = 400
          /\ last'.msg = "User with this email already exists"
          /\ users' = users /\ nextId' = nextId /\ issued' = issued /\ req' = req]_vars

C8_Witness ==
  /\ last.op = "register" /\ last.status = 400
  /\ last.msg = "User with this email already exists"
  /\ \E id \in Ids : users[id].exists

\* C9: in every reachable state no two user records have the same email.
C9_EmailUnique ==
  \A i \in Ids, j \in Ids :
    (i # j /\ users[i].exists /\ users[j].exists)
    => toLowerCase(users[i].email) # toLowerCase(users[j].email)

\* two requests raced for one email and the index refused the second write
C9_Witness ==
  /\ \/ last.msg = "E11000 duplicate key error"
     \/ last.op = "updateProfile" /\ last.status = 500
  /\ \E id \in Ids : users[id].exists

\* C10: for every email and every password that does not match, login answers
\* 'Invalid email or password', whether or not a user has that email.
C10_LoginFailureUniform ==
  \A raw \in RawEmails, pw \in Passwords :
    LET found == findOneByEmail(users, JoiEmail(raw))
    IN (found = 0 \/ ~comparePassword(pw, users[found].password))
       => loginOutcome(users, JoiEmail(raw), pw) = <<401, "Invalid email or password">>

\* the access tokens handed out so far for user id
accessTokensOf(id) == {t \in issued : mintedAs(t, "access") /\ t.userId = id}

\* the users whose isActive is false
Inactive == {id \in Ids : users[id].exists /\ ~users[id].isActive}

\* login with the right password and every access token of a deactivated user
\* are turned away
InactiveLoginAndGateBlocked(id) ==
  /\ \A raw \in RawEmails, pw \in Passwords :
       (JoiEmail(raw) = users[id].email /\ comparePassword(pw, users[id].password))
       => loginOutcome(users, JoiEmail(raw), pw)
            = <<401, "Account is deactivated. Please contact support.">>
  /\ \A t \in accessTokensOf(id) : authenticate(users, Bearer(t), now, TRUE)[1] = 401

\* a request answered with a deactivation message wrote nothing, minted
\* nothing and went no further
InactiveFrame ==
  last'.msg \in {"Account is deactivated", "Account is deactivated. Please contact support."}
  => users' = users /\ issued' = issued /\ req' = req

\* C11 as stated: while isActive is false, login with the right password and
\* refresh with the stored refresh token both fail with AccountDisabled, and
\* the gate answers 401 to every access token of the user.
C11_InactiveBlocked_AsStated ==
  \A id \in Inactive :
    /\ InactiveLoginAndGateBlocked(id)
    /\ users[id].refreshToken # NoToken
         => refreshOutcome(users, users[id].refreshToken, now) = <<401, "Account is deactivated">>

\* the answers a deactivated user gets: AccountDisabled for a login with the
\* right password and for a refresh with the stored token if it is unexpired
\* (InvalidOrExpiredToken if not), 401 at the gate
InactiveBlocked ==
  \A id \in Inactive :
    /\ InactiveLoginAndGateBlocked(id)
    /\ users[id].refreshToken # NoToken
         => refreshOutcome(users, users[id].refreshToken, now)
              = IF verifyRefreshToken(users[id].refreshToken, now) = "ok"
                THEN <<401, "Account is deactivated">>
                ELSE <<401, "Invalid or expired refresh token">>

\* C11 (amended): while a user's isActive is false, login with the right
\* password fails with AccountDisabled, refresh with the stored refresh token
\* fails with AccountDisabled if that token is unexpired and with
\* InvalidOrExpiredToken otherwise, the gate answers 401 to every access token
\* of the user, and none of the three mints a token or writes to the store.
C11_InactiveBlocked == [][InactiveBlocked' /\ InactiveFrame]_vars

C11_Witness ==
  /\ last.op = "refresh" /\ last.msg = "Account is deactivated"
  /\ \E id \in Inactive : users[id].refreshToken # NoToken

\* C12: refresh never writes to the store, whether it succeeds or fails; on
\* success the result holds an access token the gate accepts and no refresh
\* token, and the refresh token presented is accepted again afterwards.
C12_RefreshReadOnly ==
  [][\A tok \in TokenInputs :
       refreshAccessToken(tok)
       => /\ users' = users /\ nextId' = nextId
          /\ last'.out = NoToken
          /\ IF refreshAccepted(tok)
             THEN /\ last'.status = 200
                  /\ last'.acc \in issued'
                  /\ authenticate(users', Bearer(last'.acc), now', TRUE)[1] = 0
                  /\ refreshOutcome(users', tok, now')[1] = 200
             ELSE /\ last'.status \in {400, 401}
                  /\ last'.acc = NoToken
                  /\ issued' = issued]_vars

\* a refresh succeeded and the stored refresh token is still the one presented
C12_Witness ==
  /\ last.op = "refresh" /\ last.status = 200
  /\ users[last.uid].refreshToken # NoToken
  /\ refreshAccepted(users[last.uid].refreshToken)
  /\ last.acc.iat > users[last.uid].refreshToken.iat

\* the step is logoutUser's update taking effect
LogoutStep == last'.op = "logout" /\ last'.step = "update"

\* a logout step answers 200 whether or not the user has a stored refresh
\* token and whether or not the document still exists, and leaves the stored
\* refresh token absent
LogoutTotal ==
  /\ last'.status = 200
  /\ users'[last'.uid].refreshToken = NoToken
  /\ users'[last'.uid].exists = users[last'.uid].exists

\* C13 as stated: logout is total, leaves the refresh token absent, changes no
\* field other than refreshToken, and a second logout changes nothing.
C13_LogoutIdempotent_AsStated ==
  [][LogoutStep
     => /\ LogoutTotal
        /\ \A id \in Ids :
             [users'[id] EXCEPT !.refreshToken = users[id].refreshToken] = users[id]
        /\ users[last'.uid].refreshToken = NoToken => users' = users]_vars

\* C13 (amended): logout is total and idempotent up to the store-maintained
\* updatedAt: it answers 200 for a user with no stored refresh token and for
\* an id with no user, leaves the stored refresh token absent, changes no
\* field other than refreshToken and updatedAt, and a second logout changes
\* nothing but updatedAt.
C13_LogoutIdempotent ==
  [][LogoutStep
     => /\ LogoutTotal
        /\ \A id \in Ids :
             [users'[id] EXCEPT !.refreshToken = users[id].refreshToken,
                                !.updatedAt = users[id].updatedAt] = users[id]
        /\ \A id \in Ids : id # last'.uid => users'[id] = users[id]
        /\ ~users[last'.uid].exists => users' = users]_vars

\* a logout removed a stored refresh token
C13_Witness ==
  /\ last.op = "logout" /\ last.step = "update" /\ last.status = 200
  /\ users[last.uid].exists /\ users[last.uid].refreshToken = NoToken
  /\ revokedBy("logout") # {}

\* the one answer of the forgot-password endpoint
ForgotAnswer ==
  /\ last'.status = 200
  /\ last'.msg = "If an account with that email exists, a password reset link has been sent."
  /\ last'.out = NoToken /\ last'.acc = NoToken

\* C14: requestPasswordReset for an email with no user returns no token,
\* raises no error and leaves the store unchanged, and the forgot-password
\* endpoint answers with the same 200 and the same message whether or not a
\* user has the email (the save of the token having succeeded when one has).
C14_ForgotUniform ==
  [][/\ \A raw \in RawEmails :
          (generatePasswordReset_findOne(raw) /\ findOneByEmail(users, JoiEmail(raw)) = 0)
          => /\ ForgotAnswer
             /\ users' = users /\ issued' = issued /\ req' = req
     /\ \A s \in Slots, mailOk \in BOOLEAN :
          (generatePasswordReset_save(s, mailOk) /\ users[req[s].uid].exists)
          => ForgotAnswer]_vars

\* a forgot-password for an email no user of a non-empty store has
C14_Witness ==
  /\ last.op = "forgotPassword" /\ last.step = "findOne" /\ last.status = 200
  /\ \E id \in Ids : users[id].exists

\* C15: a failure of the mail transport does not change the outcome of the
\* request: when the welcome mail fails, register still answers 201 with the
\* user and both tokens and the user stays persisted; when the reset mail
\* fails, forgot-password still answers 200 and the reset token stays stored.
C15_MailFailureSwallowed ==
  [][\A s \in Slots :
       /\ (registerUser_save(s, FALSE) /\ users[req[s].uid].exists)
          => /\ last'.status = 201 /\ last'.msg = "User registered successfully"
             /\ last'.uid = req[s].uid
             /\ last'.out = req[s].mint /\ mintedAs(last'.out, "refresh")
             /\ last'.acc = accessTwin(req[s].mint) /\ mintedAs(last'.acc, "access")
             /\ users'[req[s].uid].exists
             /\ users'[req[s].uid].refreshToken = last'.out
       /\ (generatePasswordReset_save(s, FALSE) /\ users[req[s].uid].exists)
          => /\ ForgotAnswer
             /\ users'[req[s].uid].passwordResetToken = req[s].mint
             /\ mintedAs(req[s].mint, "reset")
             /\ users'[req[s].uid].passwordResetExpires = req[s].expires]_vars

\* a registration completed although its welcome mail failed
C15_Witness ==
  /\ last.op = "register" /\ last.status = 201 /\ last.mail = "failed"
  /\ users[last.uid].exists /\ users[last.uid].refreshToken = last.out

\* the admin-only routes: GET /users, GET /users/:id, DELETE /users/:id
AdminRoutes == {"getAllUsers", "getUserById", "deleteUser"}

\* the handler behind the gates was called: the request waits on its first
\* store operation
HandlerCalled ==
  /\ last'.status = 0
  /\ \E s \in Slots : req[s].op = "idle" /\ req'[s].op = last'.op /\ req'[s].uid = last'.uid

\* C16: the role gate calls the handler iff a user is bound and its role is
\* in the permitted set, answers 401 when no user is bound and 403 when the
\* role is not in the set; on the admin-only routes a caller the token gate
\* bound with role user gets 403 and one with role admin reaches the handler.
C16_RoleGate ==
  [][/\ \A roles \in SUBSET Roles, role \in Roles :
          authorizeRoles(roles, FALSE, role)[1] = 401
     /\ (last'.op \in AdminRoutes /\ last'.step = "authorizeRoles")
          => IF users[last'.uid].role = "admin"
             THEN HandlerCalled
             ELSE /\ last'.status = 403
                  /\ req' = req /\ users' = users /\ issued' = issued
     /\ \A s \in Slots :
          (req[s].op = "idle" /\ req'[s].op \in AdminRoutes)
          => /\ last'.step = "authorizeRoles" /\ last'.uid = req'[s].uid
             /\ users[req'[s].uid].exists /\ users[req'[s].uid].isActive
             /\ users[req'[s].uid].role = "admin"]_vars

\* a user-role caller was answered Forbidden while an admin's request is
\* being handled
C16_Witness ==
  /\ last.step = "authorizeRoles" /\ last.status = 403
  /\ \E s \in Slots : req[s].op \in {"getAllUsers", "getUserById", "deleteUser"}

\* the routes behind the token gate
GatedRoutes ==
  AdminRoutes \cup {"logout", "getProfile", "updateProfile", "changePassword"}

\* what the gate requires of header h: 'Bearer ' followed by a token that
\* verifies as an unexpired access token of an existing, active user
GateRequirement(h) ==
  /\ h.scheme = "Bearer" /\ h.token # NoToken
  /\ verifyAccessToken(h.token, now) = "ok"
  /\ h.token.userId \in Ids
  /\ users[h.token.userId].exists /\ users[h.token.userId].isActive

\* the gate's answer to every header a client can build: next() iff the
\* requirement holds and the store answers; 500 iff the token verifies and
\* the store fails; 401 otherwise
GateAnswers ==
  \A h \in Headers, ok \in BOOLEAN :
    LET status == authenticate(users, h, now, ok)[1]
        verified == extractBearer(h) # NoToken /\ verifyAccessToken(extractBearer(h), now) = "ok"
    IN /\ status \in {0, 401, 500}
       /\ (status = 0) <=> (GateRequirement(h) /\ ok)
       /\ (status = 500) <=> (verified /\ ~ok)

\* a handler behind the gate starts only for an existing, active user who has
\* been handed an access token that is unexpired now
GateBinds ==
  \A s \in Slots :
    (req[s].op = "idle" /\ req'[s].op \in GatedRoutes)
    => /\ last'.op = req'[s].op /\ last'.status = 0
       /\ users[req'[s].uid].exists /\ users[req'[s].uid].isActive
       /\ \E t \in accessTokensOf(req'[s].uid) : verifyAccessToken(t, now) = "ok"

\* a request the gate turns away is answered 401 or 500, binds no user, reaches
\* no handler and changes nothing
GateRejects ==
  (last'.op \in GatedRoutes /\ last'.step = "authenticate" /\ last'.status # 0)
  => /\ last'.status \in {401, 500}
     /\ req' = req /\ users' = users /\ issued' = issued

\* GET /users/profile with header h: the handler is called iff the gate's
\* requirement holds and the store answers
GateCallsHandler ==
  last'.op = "getProfile" /\ last'.step = "authenticate"
  => \A h \in HeaderInputs, ok \in BOOLEAN :
       getProfile_authenticate(h, ok)
       => IF GateRequirement(h) /\ ok
          THEN HandlerCalled /\ last'.uid = h.token.userId
          ELSE req' = req /\ last'.status \in {401, 500}

\* the step is the arrival of a request at the gate; it leaves the store, the
\* clock and the tokens handed out, on which the gate's answers depend, as
\* they are
GateArrival ==
  /\ last'.op \in GatedRoutes /\ last'.step \in {"authenticate", "authorizeRoles"}
  /\ users' = users /\ now' = now /\ issued' = issued

\* C17: the token gate binds a user and calls the handler only when the
\* header is 'Bearer <token>' with a non-empty token that verifies as an
\* unexpired access token of an existing, active user; in every other case
\* it answers 401 (500 on a store failure), binds no user and calls nothing.
C17_TokenGate ==
  [][IF GateArrival
     THEN GateBinds /\ GateRejects /\ GateCallsHandler
     ELSE GateAnswers']_vars

\* the gate let a request through although the account of another user had
\* been deactivated
C17_Witness ==
  /\ last.op \in GatedRoutes /\ last.step = "authenticate" /\ last.status = 0
  /\ \E s \in Slots : req[s].op = last.op /\ users[req[s].uid].isActive
  /\ Inactive # {}

\* the ids the store has assigned whose document is gone
Deleted == {id \in Ids : id < nextId /\ ~users[id].exists}

\* a deleted account is gone for every reader: lookups of the id answer 404,
\* the gate turns its access tokens away and refresh its refresh tokens
DeletedIsGone ==
  \A id \in Deleted :
    /\ getUserByIdOutcome(users, id) = <<404, "User not found">>
    /\ \A t \in accessTokensOf(id) : authenticate(users, Bearer(t), now, TRUE)[1] = 401
    /\ \A t \in refreshTokensOf(id) : refreshOutcome(users, t, now)[1] = 401

\* C18: an admin's DELETE of the admin's own id answers 400 'You cannot
\* delete your own account' and leaves the record in place; an admin's DELETE
\* of another existing account removes it, and from then on every lookup of
\* that id answers 404, the gate rejects that user's access tokens and
\* refresh with that user's refresh token fails.
C18_DeleteUser ==
  [][/\ \A s \in Slots :
          /\ (deleteUser_findById(s) /\ users[req[s].target].exists)
             => IF req[s].target = req[s].uid
                THEN /\ last'.status = 400
                     /\ last'.msg = "You cannot delete your own account"
                     /\ users' = users /\ req'[s] = Idle
                ELSE /\ last'.status = 0 /\ req'[s].pc = "delete" /\ users' = users
          /\ deleteUser_findByIdAndDelete(s)
             => /\ last'.status = 200 /\ req[s].target # req[s].uid
                /\ ~users'[req[s].target].exists
                /\ \A id \in Ids : id # req[s].target => users'[id] = users[id]
     /\ \A id \in Deleted : ~users'[id].exists
     /\ DeletedIsGone']_vars

\* an admin deleted another account that holds tokens
C18_Witness ==
  /\ last.op = "deleteUser" /\ last.step = "delete" /\ last.status = 200
  /\ last.uid \in Deleted
  /\ refreshTokensOf(last.uid) # {} /\ accessTokensOf(last.uid) # {}

\* C19: a token minted in one category is never accepted where another is
\* verified: the gate rejects refresh and reset tokens, refresh rejects access
\* and reset tokens, completePasswordReset rejects access and refresh tokens,
\* for every token the system has minted.
C19_CategoriesSeparate ==
  \A t \in issued :
    /\ \E cat \in {"access", "refresh", "reset"} : mintedAs(t, cat)
    /\ ~mintedAs(t, "access")
         => authenticate(users, Bearer(t), now, TRUE) = <<401, "Invalid token. Please login again.">>
    /\ ~mintedAs(t, "refresh")
         => refreshOutcome(users, t, now) = <<401, "Invalid or expired refresh token">>
    /\ ~mintedAs(t, "reset")
         => resetOutcome(users, t, now) = <<400, "Invalid or expired reset token">>

\* tokens of the three categories are out and a refresh with one that is not
\* a refresh token has been turned away
C19_Witness ==
  /\ \A cat \in {"access", "refresh", "reset"} : \E t \in issued : mintedAs(t, cat)
  /\ last.op = "refresh" /\ last.msg = "Invalid or expired refresh token"

\* the access token's expiry duration (15m) in milliseconds
AccessExpiryMs == AccessExpirySec * MsPerSec

\* the start of the whole second that holds time t
wholeSecond(t) == (t \div MsPerSec) * MsPerSec

\* times around the end of the life of a token minted at t
ProbeTimes(t) ==
  {t, t + AccessExpiryMs - MsPerSec, wholeSecond(t) + AccessExpiryMs - 1,
   wholeSecond(t) + AccessExpiryMs, t + AccessExpiryMs - 1, t + AccessExpiryMs + 1,
   t + AccessExpiryMs + MsPerSec}

\* the gate's answer to access token tok at time T, the store as it is
gateAt(tok, T) == authenticate(users, Bearer(tok), T, TRUE)

\* a refresh has just minted access token last.acc, at time now, for a user
\* who is present and active
JustMinted ==
  /\ last.op = "refresh" /\ last.status = 200
  /\ users[last.uid].exists /\ users[last.uid].isActive

\* C20 as stated: an access token minted at time t with expiry duration d is
\* accepted by the gate at every time before t+d and rejected with 'Token
\* expired. Please login again.' at every time after t+d.
C20_AccessExpiry_AsStated ==
  JustMinted
  => \A T \in ProbeTimes(now) :
       /\ T < now + AccessExpiryMs => gateAt(last.acc, T)[1] = 0
       /\ T > now + AccessExpiryMs
            => gateAt(last.acc, T) = <<401, "Token expired. Please login again.">>

\* C20 (amended): an access token minted at time t carries as issued-at the
\* whole second s that holds t; with expiry duration d the gate accepts it at
\* every time before s+d (user present and active) and rejects it with 'Token
\* expired. Please login again.' at s+d and at every time after.
C20_AccessExpiry ==
  /\ JustMinted
       => \A T \in ProbeTimes(now) :
            /\ T < wholeSecond(now) + AccessExpiryMs => gateAt(last.acc, T)[1] = 0
            /\ T >= wholeSecond(now) + AccessExpiryMs
                 => gateAt(last.acc, T) = <<401, "Token expired. Please login again.">>
  /\ \A t \in issued :
       (mintedAs(t, "access") /\ users[t.userId].exists /\ users[t.userId].isActive)
       => gateAt(t, now) = IF now < t.iat * MsPerSec + AccessExpiryMs
                           THEN <<0, "">>
                           ELSE <<401, "Token expired. Please login again.">>

\* the gate turned a request away because its access token had expired
C20_Witness ==
  /\ last.op \in GatedRoutes /\ last.msg = "Token expired. Please login again."
  /\ \E t \in issued : mintedAs(t, "access") /\ now >= t.iat * MsPerSec + AccessExpiryMs

\* the steps that are a user.save() of a document loaded earlier
SaveSteps ==
  {<<"register", "save">>, <<"login", "save">>, <<"forgotPassword", "save">>,
   <<"resetPassword", "save1">>, <<"resetPassword", "save2">>,
   <<"changePassword", "save1">>, <<"changePassword", "save2">>}

\* the request of slot s takes its save step and the store throws: the
\* document was deleted after the request loaded it (DocumentNotFoundError)
SaveThrows(s) ==
  /\ <<req[s].op, req[s].pc>> \in SaveSteps
  /\ ~users[req[s].uid].exists
  /\ req'[s] = Idle /\ last'.op = req[s].op /\ last'.step = req[s].pc

\* the messages of errors thrown by the store
StoreErrorTexts == {"No document found", "E11000 duplicate key error"}

\* C21: when the store fails unexpectedly during an endpoint, the response has
\* status 500 and a fixed generic message that does not contain the text of
\* the underlying error.
C21_StoreFailureIs500 ==
  [][\A s \in Slots :
       SaveThrows(s) => (last'.status = 500 /\ last'.msg \notin StoreErrorTexts)]_vars

\* the request of slot s takes the step pc of change-password
ChangePasswordStep(s, pc) ==
  /\ req[s].op = "changePassword" /\ req[s].pc = pc
  /\ last'.op = "changePassword" /\ last'.step = pc
  /\ req'[s] # req[s]

\* a currentPassword that does not match the stored hash: 400, nothing written
WrongCurrentRejected ==
  \A s \in Slots :
    (/\ ChangePasswordStep(s, "findById")
     /\ users[req[s].uid].exists
     /\ ~comparePassword(req[s].cur, users[req[s].uid].password))
    => /\ last'.status = 400 /\ last'.msg = "Current password is incorrect"
       /\ users' = users

\* a matching currentPassword: the hash is replaced, then the stored refresh
\* token is replaced with the one the response returns
MatchingCurrentReplaces ==
  \A s \in Slots :
    /\ (ChangePasswordStep(s, "findById") /\ last'.status = 0)
         => comparePassword(req[s].cur, users[req[s].uid].password)
    /\ (ChangePasswordStep(s, "save1") /\ users[req[s].uid].exists)
         => users'[req[s].uid].password = bcryptHash(req[s].pw)
    /\ (ChangePasswordStep(s, "save2") /\ last'.status = 200)
         => /\ last'.out # NoToken
            /\ users'[req[s].uid].refreshToken = last'.out
            /\ users'[req[s].uid].password = users[req[s].uid].password

\* no refresh token that a change-password replaced is accepted by refresh
ReplacedTokensRejected == \A t \in revokedBy("changed") : t # NoToken => ~refreshAccepted(t)

\* C22: change-password with a currentPassword that does not match the stored
\* hash fails with 400 and leaves the password hash and the stored refresh
\* token unchanged; with a matching currentPassword it replaces the hash,
\* replaces the stored refresh token with the newly returned one, and refresh
\* with the refresh token that was stored before the change fails from then on.
C22_ChangePassword ==
  [][WrongCurrentRejected /\ MatchingCurrentReplaces /\ ReplacedTokensRejected']_vars

\* C23: no response of any endpoint contains, inside a user representation,
\* the password hash, the stored refresh token, the password reset token or
\* its expiry; the register and login results carry only id, name, email and
\* role for the user.
C23_NoSecretsInResponses ==
  /\ last.user \cap {"password", "refreshToken", "passwordResetToken", "passwordResetExpires"} = {}
  /\ (last.op \in {"register", "login"} /\ last.status \in {200, 201})
       => last.user = {"id", "name", "email", "role"}

\* an admin was sent the list of users
C23_Witness == last.op = "getAllUsers" /\ last.status = 200 /\ "email" \in last.user

\* a completePasswordReset of slot s has persisted its new password and has
\* not answered yet
ResetHalfDone(s) ==
  /\ req[s].op = "resetPassword" /\ req[s].pc = "save2"
  /\ users[req[s].uid].exists
  /\ users[req[s].uid].password = bcryptHash(req[s].pw)

\* C24: completePasswordReset takes effect as one step with respect to other
\* requests: in no reachable state is the new password already persisted while
\* a refresh with the pre-reset refresh token is still accepted.
C24_ResetIsOneStep ==
  \A s \in Slots :
    ResetHalfDone(s) => \A t \in refreshTokensOf(req[s].uid) : ~refreshAccepted(t)

\* the step just taken was the write pc of operation op, answered for user id
WriteOf(op, pc, id) == last'.op = op /\ last'.step = pc /\ last'.uid = id

\* the second write of a completePasswordReset for user id that began when
\* the refresh token T was already stored
ResetBegunUnder(id, T) ==
  \E s \in Slots :
    /\ req[s].op = "resetPassword" /\ req[s].pc = "save2" /\ req[s].uid = id
    /\ req'[s] = Idle /\ req[s].mint = T

\* the response sent last was a successful login of user id, and the refresh
\* token it returned is the one stored for id
LoginJustReturned(id) ==
  /\ last.op = "login" /\ last.status = 200 /\ last.uid = id
  /\ users[id].exists /\ users[id].refreshToken = last.out

\* C25: a refresh token returned by a successful login stays the user's stored
\* refresh token until that user's next login, logout, change-password or
\* newly started password reset: a completePasswordReset that began before
\* the login does not clear it, under any interleaving of the login with the
\* reset's two writes.
C25_LoginTokenKept ==
  [][\A id \in Ids :
       (/\ LoginJustReturned(id)
        /\ users'[id].exists
        /\ users'[id].refreshToken # users[id].refreshToken)
       => \/ WriteOf("login", "save", id)
          \/ WriteOf("logout", "update", id)
          \/ WriteOf("changePassword", "save2", id)
          \/ WriteOf("resetPassword", "save2", id)
               /\ ResetBegunUnder(id, users[id].refreshToken)]_vars

\* the refresh-token values refresh would accept for user id in this state
acceptedFor(id) == {t \in TokenInputs : t.userId = id /\ refreshAccepted(t)}

\* in this state refresh accepts at most one refresh-token value per user
OneValuePerUser == \A id \in Ids : Cardinality(acceptedFor(id)) <= 1

\* a login of slot s answers 200 right after another login of the same user
\* did: the two ran concurrently, and this one's write is the later one
SecondOfTwoLogins(s) ==
  /\ req[s].op = "login" /\ req[s].pc = "save" /\ req'[s] = Idle
  /\ last.op = "login" /\ last.status = 200 /\ last.uid = req[s].uid
  /\ last'.op = "login" /\ last'.status = 200

\* C26: when two login requests for the same user run concurrently and both
\* succeed, both responses carry a token pair, the stored refresh token
\* afterwards equals the one written last, and refresh accepts at most one of
\* the two returned refresh tokens; in every reachable state refresh accepts
\* at most one refresh-token value per user.
C26_ConcurrentLogins ==
  [][/\ \A s \in Slots :
          SecondOfTwoLogins(s)
          => /\ last.out # NoToken /\ last.acc # NoToken
             /\ last'.out # NoToken /\ last'.acc # NoToken
             /\ users'[req[s].uid].refreshToken = last'.out
             /\ ~(/\ refreshOutcome(users', last.out, now')[1] = 200
                  /\ refreshOutcome(users', last'.out, now')[1] = 200)
     /\ OneValuePerUser']_vars

\* the stored hash of an existing user changes only in the first save of
\* change-password and in the first save of completePasswordReset
HashFrame ==
  \A id \in Ids :
    (users[id].exists /\ users'[id].exists /\ users'[id].password # users[id].password)
    => \/ WriteOf("changePassword", "save1", id)
       \/ WriteOf("resetPassword", "save1", id)

\* the steps that set a password store the hash of the password they were given
HashSet ==
  \A s \in Slots :
    /\ (/\ req[s].op = "register" /\ req[s].pc = "create"
        /\ req'[s] # req[s] /\ nextId' # nextId)
         => users'[nextId].password = bcryptHash(req[s].pw)
    /\ (/\ <<req[s].op, req[s].pc>> \in {<<"changePassword", "save1">>, <<"resetPassword", "save1">>}
        /\ req'[s] # req[s] /\ users[req[s].uid].exists)
         => users'[req[s].uid].password = bcryptHash(req[s].pw)

\* every active user has a password with which login succeeds
LoginPossible ==
  \A id \in Ids :
    (users[id].exists /\ users[id].isActive)
    => \E p \in Passwords : loginOutcome(users, users[id].email, p) = <<0, "">>

\* C27: the stored password hash of a user changes only in change-password
\* and completePasswordReset: register's second save, login, refresh, logout,
\* requestPasswordReset and update-profile leave it unchanged and do not
\* re-hash it, so in every reachable state login with the password most
\* recently set for an active user succeeds.
C27_HashFrame == [][HashFrame /\ HashSet /\ LoginPossible']_vars

\* a login succeeded after the second save of a registration
C27_Witness ==
  /\ last.op = "login" /\ last.status = 200
  /\ \E p \in Passwords : comparePassword(p, users[last.uid].password)

\* the completePasswordReset or change-password of slot s answers success
PasswordChangeAnswered(s) ==
  /\ req[s].op \in {"resetPassword", "changePassword"} /\ req[s].pc = "save2"
  /\ req'[s] = Idle /\ last'.status = 200

\* C28: after a successful completePasswordReset or change-password with new
\* password P different from the old password O, login with O fails with
\* InvalidCredentials and login with P succeeds, until the password is
\* changed again.
C28_PasswordAfterChange ==
  [][\A s \in Slots :
       (PasswordChangeAnswered(s) /\ req[s].pw # req[s].cur)
       => LET email == users'[req[s].uid].email
          IN /\ loginOutcome(users', email, req[s].pw) = <<0, "">>
             /\ loginOutcome(users', email, req[s].cur) = <<401, "Invalid email or password">>]_vars

\* completePasswordReset with a reset token that a later requestPasswordReset
\* replaced fails with 'Invalid or expired reset token'
ReplacedResetRejected ==
  \A t \in revokedBy("replaced") :
    resetOutcome(users, t, now) = <<400, "Invalid or expired reset token">>

\* a completePasswordReset writes a password only with the reset token that
\* is stored when it writes
OnlyStoredCompletes ==
  \A s \in Slots :
    (/\ req[s].op = "resetPassword" /\ req[s].pc = "save1"
     /\ req'[s] # req[s] /\ users'[req[s].uid].password # users[req[s].uid].password)
    => users[req[s].uid].passwordResetToken = req[s].tok

\* C29: at most one reset token is live per user: after a second
\* requestPasswordReset for the same user has stored its token,
\* completePasswordReset with the token returned by the first request fails
\* with InvalidOrExpiredToken and changes nothing, and only the most recently
\* stored token can complete a reset.
C29_OneLiveResetToken == [][ReplacedResetRejected' /\ OnlyStoredCompletes]_vars

\* the issued access tokens of user id that have not reached their expiry
liveAccessTokensOf(id) == {t \in accessTokensOf(id) : verifyAccessToken(t, now) = "ok"}

\* the step just taken completed a logout, a completePasswordReset or a
\* change-password of user id
SessionEnded(id) ==
  /\ last'.status = 200
  /\ \/ WriteOf("logout", "update", id)
     \/ WriteOf("resetPassword", "save2", id)
     \/ WriteOf("changePassword", "save2", id)

\* an unexpired access token of a user who exists and is active passes the gate
LiveAccessAccepted ==
  \A id \in Ids :
    (users[id].exists /\ users[id].isActive)
    => \A t \in liveAccessTokensOf(id) : gateAt(t, now) = <<0, "">>

\* C30: access tokens are not revoked by session-ending operations: after
\* logout, completePasswordReset or change-password, an access token issued
\* earlier to that user is still accepted by the token gate until its own
\* expiry, as long as the user exists and is active.
C30_AccessNotRevoked ==
  [][/\ \A id \in Ids :
          (SessionEnded(id) /\ users'[id].exists /\ users'[id].isActive)
          => \A t \in liveAccessTokensOf(id) :
               authenticate(users', Bearer(t), now', TRUE) = <<0, "">>
     /\ LiveAccessAccepted']_vars

\* a logout, reset or change-password has completed for a user who holds an
\* unexpired access token issued before it
C30_Witness ==
  /\ last.op \in {"logout", "resetPassword", "changePassword"} /\ last.status = 200
  /\ users[last.uid].exists /\ users[last.uid].isActive
  /\ users[last.uid].refreshToken = NoToken
  /\ \E t \in liveAccessTokensOf(last.uid) : gateAt(t, now) = <<0, "">>

\* a registration takes the role of its request, 'user' when none is given
RoleFromRequest ==
  \A raw \in RawEmails, pw \in Passwords, r \in RoleInputs :
    (registerUser_findOne(raw, pw, r) /\ last'.status = 0)
    => req'[FreeSlot].role = IF r = "absent" THEN "user" ELSE r

\* the document a registration creates has the role of the request, and the
\* tokens register returns carry it
RoleOfRegistration ==
  \A s \in Slots :
    /\ (/\ req[s].op = "register" /\ req[s].pc = "create"
        /\ req'[s] # req[s] /\ nextId' # nextId)
         => users'[nextId].role = req[s].role /\ req'[s].role = req[s].role
    /\ (/\ req[s].op = "register" /\ req[s].pc = "save"
        /\ req'[s] = Idle /\ last'.status = 201)
         => /\ last'.out.role = req[s].role /\ last'.acc.role = req[s].role
            /\ users'[req[s].uid].role = req[s].role

\* no step changes the role of an existing user
RoleFrame ==
  \A id \in Ids : (users[id].exists /\ users'[id].exists) => users'[id].role = users[id].role

====
